---- MODULE Spec2Model ----
(***************************************************************************)
(* Model of the shared request/response queue of dsa3.py: the QueueManager *)
(* object, the snapshot file it is saved to and loaded from, the keyword   *)
(* lookup of AIMSKnowledgeBase, and the Streamlit script main() that every *)
(* client session runs as load -> mutate -> save cycles on the one file.   *)
(*                                                                         *)
(* Texts are tuples of one-character strings, so that lower(), strip() and *)
(* the substring test "keyword in text" are computed, not assumed.         *)
(* Times are whole seconds of one wall clock (time.time / datetime.now).   *)
(***************************************************************************)
EXTENDS Integers, Sequences, FiniteSets, TLC

\* ------------------------------------------------------------------ bounds
\* The clock runs from 1 to MaxTime.
MaxTime == 4
\* At most MaxSubmits questions are submitted in one behaviour.
MaxSubmits == 2
\* The clients' runs on the shared file make at most MaxEvents submissions,
\* dispatches and deliveries, taken together, in one behaviour.
MaxEvents == 4

\* ------------------------------------------------------- program constants
\* Python's None (last_process_time before the first dispatch, a missing result).
None == -1
\* process_next_message: minimum number of seconds between two dispatches.
MinInterval == 3
\* clean_inactive_users: default timeout, used by get_queue_stats.
StatsTimeout == 15
\* load_queue: timeout of the sweep run on every load.
LoadTimeout == 30
\* to_dict: conversation_history[-100:] and queue_log[-50:].
HistoryCap == 100
LogCap == 50
\* Seconds in a day: strftime("%H:%M:%S") keeps the time of day only.
DaySeconds == 86400

\* The client sessions: st.session_state.user_id of each.
Clients == {"Student_1001", "Student_1002"}

\* ------------------------------------------------------------------- texts
T_enroll == <<"H","o","w"," ","d","o"," ","I"," ","e","n","r","o","l","l","?">>
T_unmatched == <<"x","y","z"," ","u","n","m","a","t","c","h","e","d">>
T_blank == <<" ">>
\* The questions typed in the serialized calls.
\* Questions that tell the matching rules apart: upper case; keywords of
\* two procedures, the later procedure's first in the text; a keyword of one
\* procedure inside a keyword of an earlier one ("cor" in "scores"); a
\* keyword inside another word ("cor" in "record"); a keyword of the last
\* procedure.
T_upper == <<"E","N","R","O","L","L"," ","M","E">>
T_two == <<"g","r","a","d","e","s",","," ","t","h","e","n"," ","e","n","r","o","l","l">>
T_scores == <<"m","y"," ","s","c","o","r","e","s">>
T_record == <<"r","e","c","o","r","d">>
T_password == <<"r","e","s","e","t"," ","p","a","s","s","w","o","r","d">>

LookupTexts == {T_upper, T_two, T_scores, T_record, T_password, T_unmatched}

Texts == {T_enroll, T_unmatched, T_blank}
\* The questions the clients type in their runs on the shared file.
SharedTexts == {T_enroll, T_blank}

UpperCase == <<"A","B","C","D","E","F","G","H","I","J","K","L","M",
               "N","O","P","Q","R","S","T","U","V","W","X","Y","Z">>
LowerCase == <<"a","b","c","d","e","f","g","h","i","j","k","l","m",
               "n","o","p","q","r","s","t","u","v","w","x","y","z">>
Whitespace == {" ", "\t", "\n", "\r"}

\* str.lower() of one character.
LowerChar(ch) ==
  IF \E i \in 1..Len(UpperCase) : UpperCase[i] = ch
    THEN LowerCase[CHOOSE i \in 1..Len(UpperCase) : UpperCase[i] = ch]
    ELSE ch

\* str.lower()
Lower(t) == [i \in 1..Len(t) |-> LowerChar(t[i])]

\* str.strip(): drop the whitespace at both ends.
RECURSIVE LStrip(_)
LStrip(t) == IF t # <<>> /\ Head(t) \in Whitespace THEN LStrip(Tail(t)) ELSE t
RECURSIVE RStrip(_)
RStrip(t) ==
  IF t # <<>> /\ t[Len(t)] \in Whitespace THEN RStrip(SubSeq(t, 1, Len(t) - 1)) ELSE t
Strip(t) == RStrip(LStrip(t))

\* Python's "k in t" on strings: k is a substring of t.
Contains(t, k) ==
  \E i \in 0..(Len(t) - Len(k)) : SubSeq(t, i + 1, i + Len(k)) = k

\* ---------------------------------------------------------- knowledge base
\* AIMSKnowledgeBase.procedures, in list order. An answer body is named by
\* its title line.
procedures == <<
  [ category |-> "Enrollment",
    response |-> "How to Enroll in Subjects via AIMS",
    keywords |-> <<
        <<"e","n","r","o","l","l">>,
        <<"e","n","r","o","l","l","m","e","n","t">>,
        <<"r","e","g","i","s","t","e","r">>,
        <<"e","n","l","i","s","t">>,
        <<"a","d","d"," ","s","u","b","j","e","c","t">> >> ],
  [ category |-> "Fee Payment",
    response |-> "How to Pay Your Assessed Fees",
    keywords |-> <<
        <<"p","a","y"," ","t","u","i","t","i","o","n">>,
        <<"t","u","i","t","i","o","n"," ","f","e","e">>,
        <<"h","o","w"," ","t","o"," ","p","a","y">>,
        <<"m","i","s","c","e","l","l","a","n","e","o","u","s"," ","f","e","e">>,
        <<"m","a","k","e"," ","p","a","y","m","e","n","t">>,
        <<"p","a","y","m","e","n","t"," ","p","r","o","c","e","s","s">>,
        <<"a","s","s","e","s","s","m","e","n","t"," ","f","e","e">> >> ],
  [ category |-> "Grades",
    response |-> "How to Check Your Grades in AIMS",
    keywords |-> <<
        <<"g","r","a","d","e","s">>,
        <<"g","r","a","d","e">>,
        <<"g","w","a">>,
        <<"m","a","r","k","s">>,
        <<"s","c","o","r","e","s">>,
        <<"r","e","s","u","l","t","s">> >> ],
  [ category |-> "Other Payments",
    response |-> "AIMS Other Payments Guide",
    keywords |-> <<
        <<"o","t","h","e","r"," ","p","a","y","m","e","n","t","s">>,
        <<"o","t","h","e","r"," ","f","e","e","s">> >> ],
  [ category |-> "Schedule",
    response |-> "Checking Your Class Schedule",
    keywords |-> <<
        <<"s","c","h","e","d","u","l","e">>,
        <<"c","l","a","s","s">>,
        <<"t","i","m","e","t","a","b","l","e">>,
        <<"t","i","m","e">>,
        <<"r","o","o","m">> >> ],
  [ category |-> "Registration Form",
    response |-> "How to Download Your Registration Form (COR)",
    keywords |-> <<
        <<"r","e","g","i","s","t","r","a","t","i","o","n"," ","f","o","r","m">>,
        <<"d","o","w","n","l","o","a","d"," ","r","e","g","i","s","t","r","a","t","i","o","n">>,
        <<"g","e","t"," ","r","e","g","i","s","t","r","a","t","i","o","n"," ","f","o","r","m">>,
        <<"c","o","r">>,
        <<"p","r","i","n","t"," ","f","o","r","m">>,
        <<"e","n","r","o","l","l","m","e","n","t"," ","f","o","r","m">> >> ],
  [ category |-> "Account History",
    response |-> "How to Check Your Payment History (Statement of Account)",
    keywords |-> <<
        <<"s","t","a","t","e","m","e","n","t"," ","o","f"," ","a","c","c","o","u","n","t">>,
        <<"s","o","a">>,
        <<"p","a","y","m","e","n","t"," ","h","i","s","t","o","r","y">>,
        <<"a","c","c","o","u","n","t"," ","h","i","s","t","o","r","y">>,
        <<"c","h","e","c","k"," ","b","a","l","a","n","c","e">>,
        <<"v","i","e","w"," ","b","a","l","a","n","c","e">>,
        <<"f","e","e","s"," ","p","a","i","d">>,
        <<"p","a","y","m","e","n","t"," ","r","e","c","o","r","d","s">> >> ],
  [ category |-> "Password",
    response |-> "How to Change Your AIMS Password",
    keywords |-> <<
        <<"p","a","s","s","w","o","r","d">>,
        <<"c","h","a","n","g","e"," ","p","a","s","s","w","o","r","d">>,
        <<"u","p","d","a","t","e"," ","p","a","s","s","w","o","r","d">>,
        <<"r","e","s","e","t"," ","p","a","s","s","w","o","r","d">>,
        <<"a","c","c","o","u","n","t"," ","s","e","c","u","r","i","t","y">> >> ] >>

DefaultHelp == "Welcome to AIMSsist!"

\* AIMSKnowledgeBase.search_procedure: index of the first procedure, in list
\* order, one of whose keywords occurs in the lowercased message; 0 for None.
RECURSIVE search_from(_, _)
search_from(msg_lower, i) ==
  IF i > Len(procedures) THEN 0
  ELSE IF \E j \in 1..Len(procedures[i].keywords) :
            Contains(msg_lower, procedures[i].keywords[j])
    THEN i
    ELSE search_from(msg_lower, i + 1)

\* Mutant of search_procedure: the message is not lowercased.
search_procedure_case_sensitive(user_message) == search_from(user_message, 1)

search_procedure(user_message) == search_from(Lower(user_message), 1)

\* process_next_message, lines 90-94: the answer text for a message.
response_text(message) ==
  LET p == search_procedure(message)
  IN  IF p # 0 THEN procedures[p].response ELSE DefaultHelp

\* ------------------------------------------------------------ QueueManager
\* Python truthiness of a number-or-None: None and 0 are false.
Truthy(x) == x # None /\ x # 0

\* Mutant of LastN: seq[:n], the oldest n entries.
LastN_oldest(seq, n) == IF Len(seq) <= n THEN seq ELSE SubSeq(seq, 1, n)

\* seq[-n:]
LastN(seq, n) == IF Len(seq) <= n THEN seq ELSE SubSeq(seq, Len(seq) - n + 1, Len(seq))

\* seq.pop(i) for a 1-based i: seq without its i-th element.
RemoveAt(seq, i) == SubSeq(seq, 1, i - 1) \o SubSeq(seq, i + 1, Len(seq))

\* datetime.fromisoformat(ts).strftime("%H:%M:%S"): the time of day of ts.
FormatHMS(ts) == ts % DaySeconds

\* QueueManager.__init__ at time t.
QueueManager(t) ==
  [ message_queue |-> <<>>,
    processing_queue |-> <<>>,
    response_queue |-> <<>>,
    conversation_history |-> <<>>,
    active_users |-> [u \in {} |-> 0],
    start_time |-> t,
    queue_log |-> <<>>,
    last_process_time |-> None,
    total_messages |-> 0,
    processed_count |-> 0 ]

\* QueueManager.to_dict: the snapshot written to the file.
to_dict(q) ==
  [ message_queue |-> q.message_queue,
    processing_queue |-> q.processing_queue,
    response_queue |-> q.response_queue,
    conversation_history |-> LastN(q.conversation_history, HistoryCap),
    total_messages |-> q.total_messages,
    processed_count |-> q.processed_count,
    active_users |-> q.active_users,
    start_time |-> q.start_time,
    queue_log |-> LastN(q.queue_log, LogCap),
    last_process_time |-> q.last_process_time ]

\* Mutant of from_dict: last_process_time is not read back.
from_dict_without_last(data) ==
  [ message_queue |-> data.message_queue,
    processing_queue |-> data.processing_queue,
    response_queue |-> data.response_queue,
    conversation_history |-> data.conversation_history,
    active_users |-> data.active_users,
    start_time |-> data.start_time,
    queue_log |-> data.queue_log,
    last_process_time |-> None,
    total_messages |-> data.total_messages,
    processed_count |-> data.processed_count ]

\* QueueManager.from_dict: a QueueManager with the fields of the snapshot.
from_dict(data) ==
  [ message_queue |-> data.message_queue,
    processing_queue |-> data.processing_queue,
    response_queue |-> data.response_queue,
    conversation_history |-> data.conversation_history,
    active_users |-> data.active_users,
    start_time |-> data.start_time,
    queue_log |-> data.queue_log,
    last_process_time |-> data.last_process_time,
    total_messages |-> data.total_messages,
    processed_count |-> data.processed_count ]

\* QueueManager.enqueue
enqueue(q, msg_obj) == [q EXCEPT !.message_queue = Append(@, msg_obj)]

\* Mutant of next_id: the id is counted from the requests now pending.
next_id_by_length(q) == Len(q.message_queue) + 1

\* The id add_user_message gives the new request.
next_id(q) == q.total_messages + 1

\* dict[key] = value on active_users (a function on the user ids it holds).
SetItem(d, key, value) ==
  [k \in (DOMAIN d) \cup {key} |-> IF k = key THEN value ELSE d[k]]

\* Mutant of add_user_message: total_messages is not incremented.
add_user_message_uncounted(q, message, user_id, t) ==
  LET msg_obj == [id |-> next_id(q), message |-> message,
                  timestamp |-> t, user_id |-> user_id]
      q1 == enqueue(q, msg_obj)
  IN  [q1 EXCEPT !.active_users = SetItem(@, user_id, t),
                 !.queue_log = Append(@, [time |-> t, action |-> "enqueued",
                                          queue_size |-> Len(q1.message_queue)])]

\* QueueManager.add_user_message at time t.
add_user_message(q, message, user_id, t) ==
  LET msg_obj == [id |-> next_id(q), message |-> message,
                  timestamp |-> t, user_id |-> user_id]
      q1 == enqueue(q, msg_obj)
  IN  [q1 EXCEPT !.total_messages = @ + 1,
                 !.active_users = SetItem(@, user_id, t),
                 !.queue_log = Append(@, [time |-> t, action |-> "enqueued",
                                          queue_size |-> Len(q1.message_queue)])]

\* Mutant of throttled: the interval is one second short.
throttled_one_short(q, current_time) ==
  Truthy(q.last_process_time)
    /\ (current_time - q.last_process_time) < MinInterval - 1

\* process_next_message, line 82: the rate limit refuses the call.
throttled(q, current_time) ==
  Truthy(q.last_process_time) /\ (current_time - q.last_process_time) < MinInterval

\* process_next_message, lines 96-102: the response built for msg at time t.
make_response(msg, t) ==
  [ id |-> msg.id,
    response |-> response_text(msg.message),
    original_message |-> msg.message,
    user_id |-> msg.user_id,
    timestamp |-> t ]

\* Mutant of process_next_message: pop() takes the newest request, not the
\* oldest.
process_next_message_lifo(q, current_time) ==
  IF throttled(q, current_time) THEN [q |-> q, ok |-> FALSE]
  ELSE IF q.message_queue = <<>> THEN [q |-> q, ok |-> FALSE]
  ELSE
    LET n == Len(q.message_queue)
        msg == q.message_queue[n]
        processing == Append(q.processing_queue, msg)
    IN  [ q |-> [q EXCEPT !.message_queue = SubSeq(@, 1, n - 1),
                          !.processing_queue = Tail(processing),
                          !.last_process_time = current_time,
                          !.response_queue = Append(@, make_response(msg, current_time)),
                          !.processed_count = @ + 1],
          ok |-> TRUE ]

\* Mutant of process_next_message: last_process_time is set before the
\* queue is found empty.
process_next_message_stamps_first(q, current_time) ==
  IF throttled(q, current_time) THEN [q |-> q, ok |-> FALSE]
  ELSE IF q.message_queue = <<>>
    THEN [q |-> [q EXCEPT !.last_process_time = current_time], ok |-> FALSE]
  ELSE
    LET msg == Head(q.message_queue)
        processing == Append(q.processing_queue, msg)
    IN  [ q |-> [q EXCEPT !.message_queue = Tail(@),
                          !.processing_queue = Tail(processing),
                          !.last_process_time = current_time,
                          !.response_queue = Append(@, make_response(msg, current_time)),
                          !.processed_count = @ + 1],
          ok |-> TRUE ]

\* Mutant of process_next_message: the dispatched request is not removed
\* from the pending queue.
process_next_message_keeps_head(q, current_time) ==
  IF throttled(q, current_time) THEN [q |-> q, ok |-> FALSE]
  ELSE IF q.message_queue = <<>> THEN [q |-> q, ok |-> FALSE]
  ELSE
    LET msg == Head(q.message_queue)
        processing == Append(q.processing_queue, msg)
    IN  [ q |-> [q EXCEPT !.processing_queue = Tail(processing),
                          !.last_process_time = current_time,
                          !.response_queue = Append(@, make_response(msg, current_time)),
                          !.processed_count = @ + 1],
          ok |-> TRUE ]

\* Mutant of process_next_message: processed_count is not incremented.
process_next_message_uncounted(q, current_time) ==
  IF throttled(q, current_time) THEN [q |-> q, ok |-> FALSE]
  ELSE IF q.message_queue = <<>> THEN [q |-> q, ok |-> FALSE]
  ELSE
    LET msg == Head(q.message_queue)
        processing == Append(q.processing_queue, msg)
    IN  [ q |-> [q EXCEPT !.message_queue = Tail(@),
                          !.processing_queue = Tail(processing),
                          !.last_process_time = current_time,
                          !.response_queue = Append(@, make_response(msg, current_time))],
          ok |-> TRUE ]

\* QueueManager.process_next_message at time current_time: the manager
\* afterwards and the value returned.
process_next_message(q, current_time) ==
  IF throttled(q, current_time) THEN [q |-> q, ok |-> FALSE]
  ELSE IF q.message_queue = <<>> THEN [q |-> q, ok |-> FALSE]
  ELSE
    LET msg == Head(q.message_queue)
        processing == Append(q.processing_queue, msg)
    IN  [ q |-> [q EXCEPT !.message_queue = Tail(@),
                          !.processing_queue = Tail(processing),
                          !.last_process_time = current_time,
                          !.response_queue = Append(@, make_response(msg, current_time)),
                          !.processed_count = @ + 1],
          ok |-> TRUE ]

\* process_next_message, lines 81-88: up to the point where the request is
\* in processing_queue and last_process_time is set.
begin_process(q, current_time) ==
  IF throttled(q, current_time) THEN [q |-> q, ok |-> FALSE]
  ELSE IF q.message_queue = <<>> THEN [q |-> q, ok |-> FALSE]
  ELSE [ q |-> [q EXCEPT !.message_queue = Tail(@),
                         !.processing_queue = Append(@, Head(q.message_queue)),
                         !.last_process_time = current_time],
         ok |-> TRUE ]

\* process_next_message, lines 90-108: the response of the request taken,
\* written at time t, and the processing_queue popped.
end_process(q, t) ==
  LET msg == q.processing_queue[Len(q.processing_queue)]
  IN  [q EXCEPT !.response_queue = Append(@, make_response(msg, t)),
                !.processing_queue = Tail(@),
                !.processed_count = @ + 1]

\* QueueManager.get_queue_position
RECURSIVE position_from(_, _, _)
position_from(queue, user_id, idx) ==
  IF idx > Len(queue) THEN 0
  ELSE IF queue[idx].user_id = user_id THEN idx
  ELSE position_from(queue, user_id, idx + 1)

\* Mutant of get_queue_position: the index is returned, not the index + 1.
get_queue_position_zero_based(q, user_id) ==
  LET p == position_from(q.message_queue, user_id, 1)
  IN  IF p = 0 THEN 0 ELSE p - 1

get_queue_position(q, user_id) == position_from(q.message_queue, user_id, 1)

\* Mutant of clean_inactive_users: an entry whose age equals the timeout is
\* removed too.
clean_inactive_users_inclusive(q, timeout_seconds, t) ==
  LET inactive_users == {u \in DOMAIN q.active_users :
                           (t - q.active_users[u]) >= timeout_seconds}
  IN  [q EXCEPT !.active_users =
         [u \in (DOMAIN q.active_users) \ inactive_users |-> q.active_users[u]]]

\* QueueManager.clean_inactive_users at time t.
clean_inactive_users(q, timeout_seconds, t) ==
  LET inactive_users == {u \in DOMAIN q.active_users :
                           (t - q.active_users[u]) > timeout_seconds}
  IN  [q EXCEPT !.active_users =
         [u \in (DOMAIN q.active_users) \ inactive_users |-> q.active_users[u]]]

\* QueueManager.update_user_activity at time t.
update_user_activity(q, user_id, t) ==
  [q EXCEPT !.active_users = SetItem(@, user_id, t)]

\* QueueManager.get_queue_stats at time t: the manager afterwards (swept).
get_queue_stats(q, t) == clean_inactive_users(q, StatsTimeout, t)

\* Mutant of get_response: the conversation_history is cut to its cap.
get_response_truncating(q, user_id) ==
  LET hits == {i \in 1..Len(q.response_queue) : q.response_queue[i].user_id = user_id}
  IN  IF hits = {} THEN [q |-> q, response |-> <<>>]
      ELSE
        LET i == CHOOSE k \in hits : \A j \in hits : k <= j
            response == q.response_queue[i]
        IN  [ q |-> [q EXCEPT !.response_queue = RemoveAt(@, i),
                              !.conversation_history =
                                 LastN(Append(@, [user |-> response.original_message,
                                                  bot |-> response.response,
                                                  time |-> FormatHMS(response.timestamp),
                                                  user_id |-> user_id]),
                                       HistoryCap)],
              response |-> <<response>> ]

\* Mutant of get_response: the last matching response is taken.
get_response_last(q, user_id) ==
  LET hits == {i \in 1..Len(q.response_queue) : q.response_queue[i].user_id = user_id}
  IN  IF hits = {} THEN [q |-> q, response |-> <<>>]
      ELSE
        LET i == CHOOSE k \in hits : \A j \in hits : k >= j
            response == q.response_queue[i]
        IN  [ q |-> [q EXCEPT !.response_queue = RemoveAt(@, i),
                              !.conversation_history =
                                 Append(@, [user |-> response.original_message,
                                            bot |-> response.response,
                                            time |-> FormatHMS(response.timestamp),
                                            user_id |-> user_id])],
              response |-> <<response>> ]

\* QueueManager.get_response: the manager afterwards and the response
\* returned, as a sequence of length 1, or <<>> for None.
get_response(q, user_id) ==
  LET hits == {i \in 1..Len(q.response_queue) : q.response_queue[i].user_id = user_id}
  IN  IF hits = {} THEN [q |-> q, response |-> <<>>]
      ELSE
        LET i == CHOOSE k \in hits : \A j \in hits : k <= j
            response == q.response_queue[i]
        IN  [ q |-> [q EXCEPT !.response_queue = RemoveAt(@, i),
                              !.conversation_history =
                                 Append(@, [user |-> response.original_message,
                                            bot |-> response.response,
                                            time |-> FormatHMS(response.timestamp),
                                            user_id |-> user_id])],
              response |-> <<response>> ]

\* save_queue followed by load_queue at time t: what a load returns for the
\* snapshot data (the file exists and parses).
load_queue(data, t) == clean_inactive_users(from_dict(data), LoadTimeout, t)

\* ------------------------------------------------------------------- state
VARIABLES
  now,        \* the wall clock
  qs,         \* one QueueManager, operated on by one caller at a time
  last,       \* what the last call made on qs returned, when it returns something
  file,       \* the snapshot in shared_queue_data.json
  qm,         \* per client: queue_manager of main()
  tmp,        \* per client: queue_manager_reload of main(), or the
              \* queue_manager of process_user_question
  pc,         \* per client: where its run of main() stands
  issued,     \* history: the requests created by accepted submits, in order
  dispatches, \* history: [msg, at, by] of every call that dispatched
  delivered   \* history: [response, to] of every response a client got

vars == <<now, qs, last, file, qm, tmp, pc, issued, dispatches, delivered>>

\* The value a local variable of main() is given here while it is out of
\* scope (before it is assigned, and after its last use in the run).
OutOfScope == QueueManager(0)

\* No call that returns something was the last one.
NoCall == [op |-> "none", client |-> "", ok |-> FALSE]

Init ==
  /\ now = 1
  /\ qs = QueueManager(1)
  /\ last = NoCall
  /\ file = to_dict(QueueManager(1))
  /\ qm = [c \in Clients |-> OutOfScope]
  /\ tmp = [c \in Clients |-> OutOfScope]
  /\ pc = [c \in Clients |-> "start"]
  /\ issued = <<>>
  /\ dispatches = <<>>
  /\ delivered = <<>>

\* Time passes.
Tick ==
  /\ now < MaxTime
  /\ now' = now + 1
  /\ UNCHANGED <<qs, last, file, qm, tmp, pc, issued, dispatches, delivered>>

\* --------------------------------------- one QueueManager, serialized calls
\* process_user_question's guard, then add_user_message.
Submit(c, text) ==
  /\ Len(issued) < MaxSubmits
  /\ IF Strip(text) = <<>>
       THEN /\ qs' = qs
            /\ issued' = issued
       ELSE /\ qs' = add_user_message(qs, text, c, now)
            /\ issued' = Append(issued, qs'.message_queue[Len(qs'.message_queue)])
  /\ last' = NoCall
  /\ UNCHANGED <<now, file, qm, tmp, pc, dispatches, delivered>>

\* process_next_message, called whatever the queue holds.
DispatchOne ==
  LET r == process_next_message(qs, now)
  IN  /\ qs' = r.q
      /\ last' = [op |-> "dispatch", client |-> "", ok |-> r.ok]
      /\ dispatches' = IF r.ok
                         THEN Append(dispatches, [msg |-> Head(qs.message_queue),
                                                  at |-> now, by |-> ""])
                         ELSE dispatches
      /\ UNCHANGED <<now, file, qm, tmp, pc, issued, delivered>>

\* get_response
RetrieveResponse(c) ==
  LET r == get_response(qs, c)
  IN  /\ qs' = r.q
      /\ last' = [op |-> "retrieve", client |-> c, ok |-> (r.response # <<>>)]
      /\ delivered' = IF r.response # <<>>
                        THEN Append(delivered, [response |-> r.response[1], to |-> c])
                        ELSE delivered
      /\ UNCHANGED <<now, file, qm, tmp, pc, issued, dispatches>>

\* get_queue_stats: the sweep it runs.
Stats ==
  /\ qs' = get_queue_stats(qs, now)
  /\ last' = NoCall
  /\ UNCHANGED <<now, file, qm, tmp, pc, issued, dispatches, delivered>>

\* save_queue(qs), then qs = load_queue().
SaveLoad ==
  /\ qs' = load_queue(to_dict(qs), now)
  /\ last' = NoCall
  /\ UNCHANGED <<now, file, qm, tmp, pc, issued, dispatches, delivered>>

Next ==
  \/ Tick
  \/ \E c \in Clients, text \in Texts : Submit(c, text)
  \/ DispatchOne
  \/ \E c \in Clients : RetrieveResponse(c)
  \/ Stats
  \/ SaveLoad

Spec == Init /\ [][Next]_vars

\* ------------------------- the clients' runs of main() on the shared file
\* Every client session runs the script main() again and again; each run is
\* a sequence of loads and saves of the one snapshot file, with no lock.
\* One action is one step of one client between two accesses of the file.

\* The submissions, dispatches and deliveries made so far.
Events == Len(issued) + Len(dispatches) + Len(delivered)

\* Time passes: a full minimum interval, so that the clients read the clock
\* either within the interval of an earlier reading or past it.
TickShared ==
  /\ now + MinInterval <= MaxTime
  /\ now' = now + MinInterval
  /\ UNCHANGED <<qs, last, file, qm, tmp, pc, issued, dispatches, delivered>>

\* main, lines 462-464: load the snapshot, note the client's activity.
Load(c) ==
  /\ pc[c] = "start"
  /\ qm' = [qm EXCEPT ![c] = update_user_activity(load_queue(file, now), c, now)]
  /\ pc' = [pc EXCEPT ![c] = "save_heartbeat"]
  /\ UNCHANGED <<now, qs, last, file, tmp, issued, dispatches, delivered>>

\* main, line 465: save what was loaded, with the heartbeat.
SaveHeartbeat(c) ==
  /\ pc[c] = "save_heartbeat"
  /\ file' = to_dict(qm[c])
  /\ pc' = [pc EXCEPT ![c] = "dispatch"]
  /\ UNCHANGED <<now, qs, last, qm, tmp, issued, dispatches, delivered>>

\* main, lines 467-469: dispatch on the client's copy when it holds a request.
Dispatch(c) ==
  /\ pc[c] = "dispatch"
  /\ LET r == IF qm[c].message_queue # <<>>
                THEN process_next_message(qm[c], now)
                ELSE [q |-> qm[c], ok |-> FALSE]
     IN  /\ r.ok => Events < MaxEvents
         /\ qm' = [qm EXCEPT ![c] = r.q]
         /\ pc' = [pc EXCEPT ![c] = IF r.ok THEN "save_dispatch" ELSE "reload"]
         /\ dispatches' = IF r.ok
                            THEN Append(dispatches, [msg |-> Head(qm[c].message_queue),
                                                     at |-> now, by |-> c])
                            ELSE dispatches
  /\ UNCHANGED <<now, qs, last, file, tmp, issued, delivered>>

\* main, line 470: save the client's copy after it dispatched.
SaveDispatch(c) ==
  /\ pc[c] = "save_dispatch"
  /\ file' = to_dict(qm[c])
  /\ pc' = [pc EXCEPT ![c] = "reload"]
  /\ UNCHANGED <<now, qs, last, qm, tmp, issued, dispatches, delivered>>

\* main, lines 504-511: load the snapshot again and take the client's response.
Reload(c) ==
  /\ pc[c] = "reload"
  /\ LET r == get_response(load_queue(file, now), c)
     IN  IF r.response # <<>>
           THEN /\ Events < MaxEvents
                /\ tmp' = [tmp EXCEPT ![c] = r.q]
                /\ delivered' = Append(delivered, [response |-> r.response[1], to |-> c])
                /\ pc' = [pc EXCEPT ![c] = "save_retrieve"]
           ELSE /\ tmp' = [tmp EXCEPT ![c] = OutOfScope]
                /\ delivered' = delivered
                /\ pc' = [pc EXCEPT ![c] = "ui"]
  /\ UNCHANGED <<now, qs, last, file, qm, issued, dispatches>>

\* main, lines 512-513: save the reloaded copy without the response; rerun.
SaveRetrieve(c) ==
  /\ pc[c] = "save_retrieve"
  /\ file' = to_dict(tmp[c])
  /\ pc' = [pc EXCEPT ![c] = "start"]
  /\ qm' = [qm EXCEPT ![c] = OutOfScope]
  /\ tmp' = [tmp EXCEPT ![c] = OutOfScope]
  /\ UNCHANGED <<now, qs, last, issued, dispatches, delivered>>

\* main, lines 523-526 with process_user_question, lines 431-436: the client
\* typed text; a blank text is ignored, any other is added to a fresh load.
Ask(c, text) ==
  /\ pc[c] = "ui"
  /\ Events < MaxEvents
  /\ qm' = [qm EXCEPT ![c] = OutOfScope]
  /\ IF Strip(text) = <<>>
       THEN /\ tmp' = tmp
            /\ issued' = issued
            /\ pc' = [pc EXCEPT ![c] = "start"]
       ELSE LET q == add_user_message(load_queue(file, now), Strip(text), c, now)
            IN  /\ tmp' = [tmp EXCEPT ![c] = q]
                /\ issued' = Append(issued, q.message_queue[Len(q.message_queue)])
                /\ pc' = [pc EXCEPT ![c] = "save_submit"]
  /\ UNCHANGED <<now, qs, last, file, dispatches, delivered>>

\* Mutant of SaveSubmit: the new request is added to the snapshot as it is
\* now, which is kept.
SaveSubmit_merging(c) ==
  /\ pc[c] = "save_submit"
  /\ file' = to_dict(add_user_message(from_dict(file),
                                       tmp[c].message_queue[Len(tmp[c].message_queue)].message,
                                       c, now))
  /\ pc' = [pc EXCEPT ![c] = "start"]
  /\ tmp' = [tmp EXCEPT ![c] = OutOfScope]
  /\ UNCHANGED <<now, qs, last, qm, issued, dispatches, delivered>>

\* process_user_question, line 437, and main, line 526: save; rerun.
SaveSubmit(c) ==
  /\ pc[c] = "save_submit"
  /\ file' = to_dict(tmp[c])
  /\ pc' = [pc EXCEPT ![c] = "start"]
  /\ tmp' = [tmp EXCEPT ![c] = OutOfScope]
  /\ UNCHANGED <<now, qs, last, qm, issued, dispatches, delivered>>

\* main, lines 515-584 with nothing typed: the run ends, and the next one
\* begins (the auto-refresh of lines 582-584, or the user touching a widget).
Refresh(c) ==
  /\ pc[c] = "ui"
  /\ pc' = [pc EXCEPT ![c] = "start"]
  /\ qm' = [qm EXCEPT ![c] = OutOfScope]
  /\ UNCHANGED <<now, qs, last, file, tmp, issued, dispatches, delivered>>

NextShared ==
  \/ TickShared
  \/ \E c \in Clients : Load(c)
  \/ \E c \in Clients : SaveHeartbeat(c)
  \/ \E c \in Clients : Dispatch(c)
  \/ \E c \in Clients : SaveDispatch(c)
  \/ \E c \in Clients : Reload(c)
  \/ \E c \in Clients : SaveRetrieve(c)
  \/ \E c \in Clients, text \in SharedTexts : Ask(c, text)
  \/ \E c \in Clients : SaveSubmit(c)
  \/ \E c \in Clients : Refresh(c)

SpecShared == Init /\ [][NextShared]_vars

\* ------------------------------- one QueueManager and its snapshot file
\* A QueueManager that has been in service: it has served n requests, one
\* every MinInterval seconds, to the clients in turn; the clients of
\* `waiting` have a response in the response queue; `active` is its
\* active_users. Request j was submitted one second before its dispatch at
\* MinInterval * j.
ClientOf(j) == IF j % 2 = 1 THEN "Student_1001" ELSE "Student_1002"

StoredManager(n, waiting, active) ==
  LET o == Len(waiting)
      total == n + o
      logged == IF total <= LogCap THEN total ELSE LogCap
  IN  [ message_queue |-> <<>>,
        processing_queue |-> <<>>,
        response_queue |->
          [k \in 1..o |->
             make_response([id |-> n + k, message |-> T_enroll,
                            timestamp |-> MinInterval * (n + k) - 1,
                            user_id |-> waiting[k]],
                           MinInterval * (n + k))],
        conversation_history |->
          [j \in 1..n |-> [user |-> T_enroll,
                           bot |-> response_text(T_enroll),
                           time |-> FormatHMS(MinInterval * j),
                           user_id |-> ClientOf(j)]],
        active_users |-> active,
        start_time |-> 1,
        queue_log |->
          [i \in 1..logged |-> [time |-> MinInterval * (total - logged + i) - 1,
                                action |-> "enqueued",
                                queue_size |-> 1]],
        last_process_time |-> IF total = 0 THEN None ELSE MinInterval * total,
        total_messages |-> total,
        processed_count |-> total ]

\* The numbers of requests served that put conversation_history and
\* queue_log at, and right below, their caps.
Served == {0, LogCap - 1, LogCap, HistoryCap - 1, HistoryCap}

\* The clients with a response waiting, in the order of the response queue.
Waiting ==
  {<<>>} \cup {<<c>> : c \in Clients}
         \cup {w \in Clients \X Clients : w[1] # w[2]}

\* The ages of an activity entry: fresh, and at and right above the two
\* sweep timeouts.
Ages == {0, StatsTimeout, StatsTimeout + 1, LoadTimeout, LoadTimeout + 1}

\* The clock reading the checks of the stored manager start at: after the
\* last dispatch of the longest drawn service, by more than every age.
StoreStart == MinInterval * (HistoryCap + Cardinality(Clients)) + LoadTimeout + 1

\* active_users: an entry of one of the ages for any of the clients.
ActiveMaps ==
  UNION {[S -> {StoreStart - a : a \in Ages}] : S \in SUBSET Clients}

\* The manager a session holds some time after it loaded it.
InitStore ==
  /\ now = StoreStart
  /\ \E n \in Served, waiting \in Waiting, active \in ActiveMaps :
       qs = StoredManager(n, waiting, active)
  /\ last = NoCall
  /\ file = to_dict(qs)
  /\ qm = [c \in Clients |-> OutOfScope]
  /\ tmp = [c \in Clients |-> OutOfScope]
  /\ pc = [c \in Clients |-> "start"]
  /\ issued = <<>>
  /\ dispatches = <<>>
  /\ delivered = <<>>

\* A session holds the manager it loaded for one call, as main() and
\* process_user_question do: the call is made on a manager just loaded (or
\* the one held at the start).
Held == last.op \in {"none", "load"}

\* add_user_message on the manager held, as process_user_question calls it.
SubmitStored(c) ==
  /\ Held
  /\ Len(issued) < MaxSubmits
  /\ qs' = add_user_message(qs, T_enroll, c, now)
  /\ issued' = Append(issued, qs'.message_queue[Len(qs'.message_queue)])
  /\ last' = [op |-> "submit", client |-> c, ok |-> TRUE]
  /\ UNCHANGED <<now, file, qm, tmp, pc, dispatches, delivered>>

\* get_response on the manager held, as main() line 509 calls it.
RetrieveStored(c) == Held /\ RetrieveResponse(c)

\* get_queue_stats on the manager held, as main() calls it for the sidebar:
\* the sweep it runs; the swept manager is not saved.
StatsSweep ==
  /\ Held
  /\ qs' = get_queue_stats(qs, now)
  /\ last' = [op |-> "stats", client |-> "", ok |-> TRUE]
  /\ UNCHANGED <<now, file, qm, tmp, pc, issued, dispatches, delivered>>

\* save_queue(qs), after the call (or of the manager held at the start).
Save ==
  /\ last.op \in {"none", "submit", "retrieve"}
  /\ file' = to_dict(qs)
  /\ last' = [op |-> "save", client |-> "", ok |-> TRUE]
  /\ UNCHANGED <<now, qs, qm, tmp, pc, issued, dispatches, delivered>>

\* qs = load_queue(): the next run loads the snapshot.
LoadSaved ==
  /\ last.op \in {"save", "stats"}
  /\ qs' = load_queue(file, now)
  /\ last' = [op |-> "load", client |-> "", ok |-> TRUE]
  /\ UNCHANGED <<now, file, qm, tmp, pc, issued, dispatches, delivered>>

NextStore ==
  \/ \E c \in Clients : SubmitStored(c)
  \/ \E c \in Clients : RetrieveStored(c)
  \/ StatsSweep
  \/ Save
  \/ LoadSaved

SpecStore == InitStore /\ [][NextStore]_vars

\* --------------------------- serialized calls, questions of the knowledge base
\* Questions drawn from LookupTexts are submitted and dispatched, the clock
\* going on by the rate limit's interval.
NextSearch ==
  \/ TickShared
  \/ \E c \in Clients, text \in LookupTexts : Submit(c, text)
  \/ DispatchOne

SpecSearch == Init /\ [][NextSearch]_vars

\* ------------------ the clients' runs of main(), a run may stop in dispatch
\* The runs of SpecShared with process_next_message in two steps, between
\* which the process of the client may stop; its next run starts anew.

\* main, lines 467-468, and process_next_message up to line 88.
DispatchBegin(c) ==
  /\ pc[c] = "dispatch"
  /\ LET r == IF qm[c].message_queue # <<>>
                THEN begin_process(qm[c], now)
                ELSE [q |-> qm[c], ok |-> FALSE]
     IN  /\ r.ok => Events < MaxEvents
         /\ qm' = [qm EXCEPT ![c] = r.q]
         /\ pc' = [pc EXCEPT ![c] = IF r.ok THEN "dispatching" ELSE "reload"]
  /\ UNCHANGED <<now, qs, last, file, tmp, issued, dispatches, delivered>>

\* process_next_message, lines 90-108, and main, line 469.
DispatchEnd(c) ==
  /\ pc[c] = "dispatching"
  /\ qm' = [qm EXCEPT ![c] = end_process(qm[c], now)]
  /\ dispatches' = Append(dispatches,
                          [msg |-> qm[c].processing_queue[Len(qm[c].processing_queue)],
                           at |-> qm[c].last_process_time, by |-> c])
  /\ pc' = [pc EXCEPT ![c] = "save_dispatch"]
  /\ UNCHANGED <<now, qs, last, file, tmp, issued, delivered>>

\* The process of the client stops between line 88 and line 105; what it
\* held in memory is gone.
Crash(c) ==
  /\ pc[c] = "dispatching"
  /\ qm' = [qm EXCEPT ![c] = OutOfScope]
  /\ pc' = [pc EXCEPT ![c] = "start"]
  /\ UNCHANGED <<now, qs, last, file, tmp, issued, dispatches, delivered>>

NextCrash ==
  \/ TickShared
  \/ \E c \in Clients : Load(c)
  \/ \E c \in Clients : SaveHeartbeat(c)
  \/ \E c \in Clients : DispatchBegin(c)
  \/ \E c \in Clients : DispatchEnd(c)
  \/ \E c \in Clients : Crash(c)
  \/ \E c \in Clients : SaveDispatch(c)
  \/ \E c \in Clients : Reload(c)
  \/ \E c \in Clients : SaveRetrieve(c)
  \/ \E c \in Clients, text \in SharedTexts : Ask(c, text)
  \/ \E c \in Clients : SaveSubmit(c)
  \/ \E c \in Clients : Refresh(c)

SpecCrash == Init /\ [][NextCrash]_vars

\* --------------------------- the clients' runs of main(), one run at a time
\* Each action is one whole run of main() by one client: no other client
\* reads or writes the file during it.

\* What st.chat_input returns in a run: nothing, or a text typed.
NoInput == <<>>
Inputs == {NoInput} \cup SharedTexts

\* Mutant of keep_polling: only a request in the processing queue keeps the
\* page refreshing.
keep_polling_while_processing(q, user_id) ==
  Len(q.processing_queue) > 0

\* main, lines 578-582: the auto-refresh rule, on the manager of the run.
keep_polling(q, user_id) ==
  LET is_user_waiting == get_queue_position(q, user_id) > 0
      is_system_processing == Len(q.processing_queue) > 0
      has_messages_to_process == Len(q.message_queue) > 0
  IN  is_user_waiting \/ is_system_processing \/ has_messages_to_process

\* One run of main() by client c, lines 462-584: load and heartbeat, save;
\* dispatch and save; reload and take the client's response: if there is one,
\* save and rerun; else, if a text was typed, process_user_question and
\* rerun; else rerun after the sleep when the auto-refresh rule says so, and
\* stop otherwise.
RunTurn(c, input) ==
  /\ pc[c] = "start"
  /\ Strip(input) # <<>> => Len(issued) < MaxSubmits
  /\ \E q0 \in {update_user_activity(load_queue(file, now), c, now)} :
     \E r \in {IF q0.message_queue # <<>>
                 THEN process_next_message(q0, now)
                 ELSE [q |-> q0, ok |-> FALSE]} :
     \E saved \in {to_dict(r.q)} :
     \E g \in {get_response(load_queue(saved, now), c)} :
       /\ dispatches' = IF r.ok
                          THEN Append(dispatches, [msg |-> Head(q0.message_queue),
                                                   at |-> now, by |-> c])
                          ELSE dispatches
       /\ IF g.response # <<>>
            THEN /\ file' = to_dict(g.q)
                 /\ delivered' = Append(delivered, [response |-> g.response[1], to |-> c])
                 /\ issued' = issued
                 /\ pc' = pc
            ELSE IF input # NoInput
              THEN /\ IF Strip(input) = <<>>
                        THEN /\ file' = saved
                             /\ issued' = issued
                        ELSE \E asked \in {add_user_message(load_queue(saved, now),
                                                            Strip(input), c, now)} :
                               /\ file' = to_dict(asked)
                               /\ issued' = Append(issued,
                                      asked.message_queue[Len(asked.message_queue)])
                   /\ delivered' = delivered
                   /\ pc' = pc
              ELSE /\ file' = saved
                   /\ issued' = issued
                   /\ delivered' = delivered
                   /\ pc' = [pc EXCEPT ![c] =
                               IF keep_polling(get_queue_stats(r.q, now), c)
                                 THEN "start" ELSE "idle"]
  /\ UNCHANGED <<now, qs, last, qm, tmp>>

\* The user of a page that stopped refreshing touches it: main() runs again.
Wake(c) ==
  /\ pc[c] = "idle"
  /\ pc' = [pc EXCEPT ![c] = "start"]
  /\ UNCHANGED <<now, qs, last, file, qm, tmp, issued, dispatches, delivered>>

\* Time passes: a full minimum interval, as in TickShared. The clock is read
\* for the rate limit; it is advanced here while the rate limit holds a
\* dispatch back, which is when the time read decides what a run does to the
\* queues.
TickThrottled ==
  /\ throttled(from_dict(file), now)
  /\ now' = now + MinInterval
  /\ UNCHANGED <<qs, last, file, qm, tmp, pc, issued, dispatches, delivered>>

NextTurns ==
  \/ \E c \in Clients, input \in Inputs : RunTurn(c, input)
  \/ \E c \in Clients : Wake(c)
  \/ TickThrottled

\* A page that reruns does run (st.rerun, and the sleep of line 583 ends),
\* and time goes on.
SpecTurns ==
  /\ Init
  /\ [][NextTurns]_vars
  /\ \A c \in Clients : WF_vars(\E input \in Inputs : RunTurn(c, input))
  /\ WF_vars(TickThrottled)

\* ================================================================== claims
\* The elements of a sequence.
Range(seq) == {seq[i] : i \in 1..Len(seq)}

\* The 1-based index of the first element of queue that belongs to user_id
\* (queue holds one).
FirstOf(queue, user_id) ==
  CHOOSE i \in 1..Len(queue) :
    /\ queue[i].user_id = user_id
    /\ \A j \in 1..(i - 1) : queue[j].user_id # user_id

\* ---- C1 (Spec) ----------------------------------------------------------
\* C1: under serialized submit, dispatch and retrieve calls on one
\* QueueManager that starts empty, the k-th accepted submit gets id k, and
\* the pending queue lists the submitted requests that were not dispatched
\* yet in arrival order, which is strictly increasing id order.
C1_IdsAndArrivalOrder ==
  /\ \A k \in 1..Len(issued) : issued[k].id = k
  /\ \A i, j \in 1..Len(qs.message_queue) :
       i < j => qs.message_queue[i].id < qs.message_queue[j].id
  /\ qs.message_queue = SubSeq(issued, Len(dispatches) + 1, Len(issued))

\* Two submits were accepted around a dispatch: one request left, with id 2.
C1_Witness ==
  /\ Len(issued) = 2
  /\ Len(dispatches) = 1
  /\ dispatches[1].at < issued[2].timestamp
  /\ Len(qs.message_queue) = 1

\* ---- C2 (Spec) ----------------------------------------------------------
\* C2: under serialized calls, a call of process_next_message dispatches
\* only when every earlier dispatching call is at least MinInterval seconds
\* old; a call made sooner dispatches nothing and leaves the pending queue
\* as it is, so the next request stays at its head.
C2_RateLimit ==
  [][DispatchOne =>
       /\ last'.ok =>
            \A i \in 1..Len(dispatches) : now - dispatches[i].at >= MinInterval
       /\ (\E i \in 1..Len(dispatches) : now - dispatches[i].at < MinInterval) =>
            /\ ~last'.ok
            /\ dispatches' = dispatches
            /\ qs'.message_queue = qs.message_queue]_vars

\* Two submits, then two immediate calls: the first dispatched, the second
\* was refused, and the second client's request is at the head, position 1.
C2_Witness ==
  /\ Len(issued) = 2
  /\ issued[1].user_id # issued[2].user_id
  /\ Len(dispatches) = 1
  /\ dispatches[1].msg = issued[1]
  /\ dispatches[1].at = now
  /\ last = [op |-> "dispatch", client |-> "", ok |-> FALSE]
  /\ qs.message_queue = <<issued[2]>>
  /\ get_queue_position(qs, issued[2].user_id) = 1

\* ---- C3 (SpecShared) ----------------------------------------------------
\* C3: whatever the interleaving of the clients' runs on the shared file, no
\* two dispatches, by the same or by different clients, are less than
\* MinInterval seconds apart.
C3_SystemWideRateLimit ==
  \A i, j \in 1..Len(dispatches) :
    i < j => dispatches[j].at - dispatches[i].at >= MinInterval

\* ---- C4 (SpecShared) ----------------------------------------------------
\* C4: two clients that submit on the shared file without synchronization
\* lose an update: clients that loaded the same total_messages give their
\* requests the same id, and the save of a submit replaces the whole
\* snapshot, so every request saved by another client since this client
\* loaded is no longer in the persisted pending queue afterwards.
C4_LostUpdate ==
  /\ [](\A c, d \in Clients :
          (/\ pc[c] = "save_submit"
           /\ pc[d] = "save_submit"
           /\ tmp[c].total_messages = tmp[d].total_messages)
          => tmp[c].message_queue[Len(tmp[c].message_queue)].id
               = tmp[d].message_queue[Len(tmp[d].message_queue)].id)
  /\ [][\A d \in Clients :
          SaveSubmit(d) =>
            /\ tmp[d].message_queue[Len(tmp[d].message_queue)]
                 \in Range(file'.message_queue)
            /\ \A m \in Range(file.message_queue) :
                 m \notin Range(tmp[d].message_queue)
                   => m \notin Range(file'.message_queue)]_vars

\* Both clients loaded total_messages = 0 and gave their request id 1; the
\* first has saved, the second is about to save a copy without the first's
\* request.
C4_Witness ==
  \E c, d \in Clients :
    /\ c # d
    /\ pc[c] = "start"
    /\ pc[d] = "save_submit"
    /\ Len(issued) = 2
    /\ issued[1].user_id = c
    /\ issued[2].user_id = d
    /\ issued[1].id = issued[2].id
    /\ file.message_queue = <<issued[1]>>
    /\ tmp[d].message_queue = <<issued[2]>>

\* ---- C5 (SpecShared) ----------------------------------------------------
\* C5: whatever the interleaving of the clients' runs on the shared file, no
\* submitted request is dispatched twice (a response is created once per
\* request).
C5_DispatchedOnce ==
  \A k \in 1..Len(issued) :
    Cardinality({i \in 1..Len(dispatches) : dispatches[i].msg = issued[k]}) <= 1

\* ---- C6 (Spec) ----------------------------------------------------------
\* C6: a call of process_next_message that dispatches removes the head of
\* the pending queue and keeps the rest in order, appends one response with
\* the id, user id and message of the removed request to the end of the
\* response queue, leaves the processing queue empty, adds 1 to
\* processed_count and sets last_process_time to the current time;
\* total_messages, active_users and conversation_history stay as they are.
C6_DispatchEffect ==
  [][(DispatchOne /\ last'.ok) =>
       /\ qs.message_queue # <<>>
       /\ Len(qs'.message_queue) = Len(qs.message_queue) - 1
       /\ \A i \in 1..Len(qs'.message_queue) :
            qs'.message_queue[i] = qs.message_queue[i + 1]
       /\ Len(qs'.response_queue) = Len(qs.response_queue) + 1
       /\ \A i \in 1..Len(qs.response_queue) :
            qs'.response_queue[i] = qs.response_queue[i]
       /\ LET r == qs'.response_queue[Len(qs'.response_queue)]
              m == qs.message_queue[1]
          IN  /\ r.id = m.id
              /\ r.user_id = m.user_id
              /\ r.original_message = m.message
       /\ qs'.processing_queue = <<>>
       /\ qs'.processed_count = qs.processed_count + 1
       /\ qs'.last_process_time = now
       /\ qs'.total_messages = qs.total_messages
       /\ qs'.active_users = qs.active_users
       /\ qs'.conversation_history = qs.conversation_history]_vars

\* A dispatch has just taken the head of a queue of two: one request is
\* left, and the response queue holds the first request's response.
C6_Witness ==
  /\ last = [op |-> "dispatch", client |-> "", ok |-> TRUE]
  /\ Len(issued) = 2
  /\ qs.message_queue = <<issued[2]>>
  /\ Len(qs.response_queue) = 1
  /\ qs.response_queue[1].id = issued[1].id

\* ---- C7 (Spec) ----------------------------------------------------------
\* C7: a call of process_next_message that does not dispatch leaves the
\* whole QueueManager as it was; the call does not dispatch when less than
\* MinInterval seconds passed since a set last_process_time (whether or not
\* a request is pending) and when no request is pending, and only then.
C7_NoDispatchNoChange ==
  [][DispatchOne =>
       LET too_soon == /\ qs.last_process_time # None
                       /\ now - qs.last_process_time < MinInterval
           empty == qs.message_queue = <<>>
       IN  /\ (too_soon \/ empty) <=> ~last'.ok
           /\ ~last'.ok => (qs' = qs /\ dispatches' = dispatches)]_vars

\* A call was refused for the rate limit while a request is pending.
C7_Witness ==
  /\ last = [op |-> "dispatch", client |-> "", ok |-> FALSE]
  /\ qs.last_process_time # None
  /\ now - qs.last_process_time < MinInterval
  /\ qs.message_queue # <<>>

\* ---- C8 (Spec) ----------------------------------------------------------
\* C8: get_response returns the first response, in the order of the
\* response queue, whose user id is the caller's, removes that response
\* alone (the others keep their order) and appends one conversation_history
\* entry made of it; when no response matches it returns None and leaves
\* the QueueManager as it was.
C8_RetrieveEffect ==
  [][\A c \in Clients :
       RetrieveResponse(c) =>
         IF \A i \in 1..Len(qs.response_queue) : qs.response_queue[i].user_id # c
           THEN /\ ~last'.ok
                /\ delivered' = delivered
                /\ qs' = qs
           ELSE LET i == FirstOf(qs.response_queue, c)
                    r == qs.response_queue[i]
                    n == Len(qs.conversation_history)
                IN  /\ last'.ok
                    /\ delivered' = Append(delivered, [response |-> r, to |-> c])
                    /\ Len(qs'.response_queue) = Len(qs.response_queue) - 1
                    /\ \A k \in 1..(i - 1) :
                         qs'.response_queue[k] = qs.response_queue[k]
                    /\ \A k \in i..Len(qs'.response_queue) :
                         qs'.response_queue[k] = qs.response_queue[k + 1]
                    /\ Len(qs'.conversation_history) = n + 1
                    /\ SubSeq(qs'.conversation_history, 1, n) = qs.conversation_history
                    /\ qs'.conversation_history[n + 1].user = r.original_message
                    /\ qs'.conversation_history[n + 1].bot = r.response
                    /\ qs'.conversation_history[n + 1].user_id = c
                    /\ qs'.message_queue = qs.message_queue
                    /\ qs'.processing_queue = qs.processing_queue
                    /\ qs'.total_messages = qs.total_messages
                    /\ qs'.processed_count = qs.processed_count
                    /\ qs'.last_process_time = qs.last_process_time
                    /\ qs'.active_users = qs.active_users]_vars

\* A client with two responses waiting has just taken one: the earlier one
\* was returned, the later one is still in the response queue.
C8_Witness ==
  /\ last.op = "retrieve"
  /\ last.ok
  /\ Len(delivered) = 1
  /\ Len(qs.response_queue) = 1
  /\ qs.response_queue[1].user_id = last.client
  /\ delivered[1].response.id < qs.response_queue[1].id
  /\ Len(qs.conversation_history) = 1

\* ---- C9 (Spec) ----------------------------------------------------------
\* C9: for every client, get_queue_position is 1 plus the number of
\* requests before the client's first request in the pending queue, and 0
\* when the pending queue holds no request of the client.
C9_PositionOf ==
  \A c \in Clients :
    get_queue_position(qs, c) =
      IF \A i \in 1..Len(qs.message_queue) : qs.message_queue[i].user_id # c
        THEN 0
        ELSE 1 + Cardinality({j \in 1..Len(qs.message_queue) :
                                j < FirstOf(qs.message_queue, c)})

\* A client's only request is behind another client's: its position is 2.
C9_Witness ==
  \E c \in Clients :
    /\ Len(qs.message_queue) = 2
    /\ qs.message_queue[1].user_id # c
    /\ qs.message_queue[2].user_id = c
    /\ get_queue_position(qs, c) = 2

\* ---- C10 (SpecShared) ---------------------------------------------------
\* C10: processed_count <= total_messages in the persisted snapshot and in
\* every client's in-memory copies, whatever the interleaving of the
\* clients' load, mutate and save steps.
C10_ProcessedAtMostSubmitted ==
  /\ file.processed_count <= file.total_messages
  /\ \A c \in Clients :
       /\ qm[c].processed_count <= qm[c].total_messages
       /\ tmp[c].processed_count <= tmp[c].total_messages

\* One request was submitted and two clients dispatched it, each on its own
\* copy; the snapshot counts one submitted and one processed.
C10_Witness ==
  /\ Len(issued) = 1
  /\ Len(dispatches) = 2
  /\ file.total_messages = 1
  /\ file.processed_count = 1

\* The copies of the QueueManager a state holds: the snapshot file and every
\* client's in-memory copies.
Copies == {from_dict(file)} \cup {qm[c] : c \in Clients} \cup {tmp[c] : c \in Clients}

\* ---- C11 (SpecShared) ---------------------------------------------------
\* C11: in the persisted snapshot and in every client's copy, whatever the
\* interleaving of the clients' load, mutate and save steps, no pending
\* request has the id of a response in the response queue; the ids pending
\* are above processed_count, the ids in the response queue are not, and
\* the responses and the conversation_history entries (which carry no id)
\* together are no more than processed_count.
C11_PendingNotAnswered ==
  \A q \in Copies :
    /\ \A i \in 1..Len(q.message_queue), j \in 1..Len(q.response_queue) :
         q.message_queue[i].id # q.response_queue[j].id
    /\ \A i \in 1..Len(q.message_queue) : q.message_queue[i].id > q.processed_count
    /\ \A j \in 1..Len(q.response_queue) : q.response_queue[j].id <= q.processed_count
    /\ Len(q.response_queue) + Len(q.conversation_history) <= q.processed_count

\* The snapshot holds a pending request and the response of an earlier one,
\* after two clients gave their requests the same id.
C11_Witness ==
  /\ Len(issued) = 3
  /\ issued[1].id = issued[2].id
  /\ file.message_queue # <<>>
  /\ file.response_queue # <<>>

\* ---- C12 (SpecShared) ---------------------------------------------------
\* C12: in the persisted snapshot and in every client's copy, whatever the
\* interleaving, the response queue holds at most one response per id.
C12_OneResponsePerId ==
  \A q \in Copies :
    \A i, j \in 1..Len(q.response_queue) :
      q.response_queue[i].id = q.response_queue[j].id => i = j

\* The snapshot holds the responses of two requests, saved by two clients.
C12_Witness ==
  /\ Len(file.response_queue) = 2
  /\ Len(dispatches) = 2
  /\ dispatches[1].by # dispatches[2].by

\* ---- C13 (SpecShared) ---------------------------------------------------
\* C13: from one value of the persisted snapshot to the next, whatever the
\* interleaving, total_messages and processed_count do not decrease.
C13_CountersNeverDecrease ==
  [][/\ file'.total_messages >= file.total_messages
     /\ file'.processed_count >= file.processed_count]_vars

\* ---- C20 (SpecShared) ---------------------------------------------------
\* C20: in the persisted snapshot and in every client's copy, whatever the
\* interleaving, total_messages = processed_count + the number of pending
\* requests + the number of requests in the processing queue.
C20_Conservation ==
  \A q \in Copies :
    q.total_messages
      = q.processed_count + Len(q.message_queue) + Len(q.processing_queue)

\* Two submits were accepted and one of them was lost: the snapshot counts
\* one submitted request, which is pending.
C20_Witness ==
  /\ Len(issued) = 2
  /\ dispatches = <<>>
  /\ \A c \in Clients : pc[c] = "start"
  /\ file.total_messages = 1
  /\ Len(file.message_queue) = 1
  /\ file.processed_count = 0

\* out is the most recent entries of seq, at most cap of them, in their
\* order; all of seq when seq has no more than cap.
IsTail(out, seq, cap) ==
  /\ Len(out) = (IF Len(seq) <= cap THEN Len(seq) ELSE cap)
  /\ \A i \in 1..Len(out) : out[i] = seq[Len(seq) - Len(out) + i]

\* l has the fields of s, conversation_history and queue_log cut to their
\* caps, active_users left aside.
SameButCapped(s, l) ==
  /\ l.message_queue = s.message_queue
  /\ l.processing_queue = s.processing_queue
  /\ l.response_queue = s.response_queue
  /\ l.total_messages = s.total_messages
  /\ l.processed_count = s.processed_count
  /\ l.start_time = s.start_time
  /\ l.last_process_time = s.last_process_time
  /\ IsTail(l.conversation_history, s.conversation_history, HistoryCap)
  /\ IsTail(l.queue_log, s.queue_log, LogCap)

\* A step that loads the snapshot just saved of the manager held.
LoadAfterSave == last.op = "save" /\ last'.op = "load"

\* ---- C14 (SpecStore) ----------------------------------------------------
\* C14 as stated: load_queue() after save_queue(s) returns s in every
\* field, active_users included, but for conversation_history and queue_log
\* cut to the most recent 100 and 50.
C14_RoundTripAllFields ==
  [][LoadAfterSave =>
       /\ SameButCapped(qs, qs')
       /\ qs'.active_users = qs.active_users]_vars

\* C14, amended: load_queue() after save_queue(s) returns s in every field
\* but for conversation_history and queue_log cut to the most recent 100
\* and 50, and active_users, which keeps exactly the entries of s that are
\* no older than 30 seconds at the load.
C14_RoundTrip ==
  [][LoadAfterSave =>
       /\ SameButCapped(qs, qs')
       /\ DOMAIN qs'.active_users
            = {u \in DOMAIN qs.active_users : now - qs.active_users[u] <= LoadTimeout}
       /\ \A u \in DOMAIN qs'.active_users :
            qs'.active_users[u] = qs.active_users[u]]_vars

\* A manager was loaded whose snapshot had lost the oldest entry of a
\* conversation_history of 101, and the load dropped an activity entry.
C14_Witness ==
  /\ last.op = "load"
  /\ DOMAIN qs.active_users # DOMAIN file.active_users
  /\ Len(qs.conversation_history) = HistoryCap
  /\ qs.conversation_history[1].time # FormatHMS(MinInterval)
  /\ qs.last_process_time # None

\* ---- C15 (SpecStore) ----------------------------------------------------
\* C15: every snapshot has at most 100 conversation_history entries and at
\* most 50 queue_log entries, and a save writes of each sequence the most
\* recent 100 (50) entries in their order, the whole sequence when it is no
\* longer than that.
C15_SnapshotCapped ==
  /\ [](Len(file.conversation_history) <= HistoryCap /\ Len(file.queue_log) <= LogCap)
  /\ [][last'.op = "save" =>
          /\ IsTail(file'.conversation_history, qs.conversation_history, HistoryCap)
          /\ IsTail(file'.queue_log, qs.queue_log, LogCap)]_vars

\* A manager with 51 log entries was saved, after an earlier save had cut a
\* conversation_history of 101.
C15_Witness ==
  /\ last.op = "save"
  /\ Len(qs.queue_log) = LogCap + 1
  /\ Len(file.queue_log) = LogCap
  /\ file.queue_log[LogCap] = qs.queue_log[LogCap + 1]
  /\ Len(file.conversation_history) = HistoryCap
  /\ file.conversation_history[1].time # FormatHMS(MinInterval)

\* ---- C16 (SpecStore) ----------------------------------------------------
\* The conversation_history entry get_response writes for response r.
HistoryEntry(r) ==
  [user |-> r.original_message, bot |-> r.response,
   time |-> FormatHMS(r.timestamp), user_id |-> r.user_id]

\* A step in which get_response returned a response.
Retrieved == last'.op = "retrieve" /\ last'.ok

\* C16 as stated: after a get_response that returns a response, the
\* conversation_history of the manager holds at most 100 entries, the most
\* recent 100, in order, of the previous ones followed by the new one.
C16_RetrieveTruncates ==
  [][Retrieved =>
       IsTail(qs'.conversation_history,
              Append(qs.conversation_history,
                     HistoryEntry(delivered'[Len(delivered')].response)),
              HistoryCap)]_vars

\* C16, amended: after a get_response that returns a response, the
\* conversation_history of the manager is the previous one followed by the
\* new entry, not cut (it can hold 101 entries); the snapshot saved next
\* holds its most recent 100 entries, in order.
C16_RetrieveAppendsSaveTruncates ==
  [][/\ Retrieved =>
          qs'.conversation_history
            = Append(qs.conversation_history,
                     HistoryEntry(delivered'[Len(delivered')].response))
     /\ (last.op = "retrieve" /\ last.ok /\ last'.op = "save") =>
          /\ Len(file'.conversation_history) <= HistoryCap
          /\ IsTail(file'.conversation_history, qs.conversation_history, HistoryCap)]_vars

\* A response was retrieved into a conversation_history of 100, which then
\* held 101, and the manager was saved.
C16_Witness ==
  /\ last.op = "save"
  /\ delivered # <<>>
  /\ Len(qs.conversation_history) = HistoryCap + 1
  /\ Len(file.conversation_history) = HistoryCap
  /\ file.conversation_history[HistoryCap]
       = HistoryEntry(delivered[Len(delivered)].response)

\* ---- C17 (SpecStore) ----------------------------------------------------
\* after is before swept at time t with the timeout: the entries left are
\* entries of before, unchanged, of age <= timeout; the entries gone had
\* age > timeout; the queues and the counters are the same.
Swept(before, after, timeout, t) ==
  /\ DOMAIN after.active_users \subseteq DOMAIN before.active_users
  /\ \A u \in DOMAIN after.active_users :
       /\ after.active_users[u] = before.active_users[u]
       /\ t - after.active_users[u] <= timeout
  /\ \A u \in (DOMAIN before.active_users) \ (DOMAIN after.active_users) :
       t - before.active_users[u] > timeout
  /\ after.message_queue = before.message_queue
  /\ after.response_queue = before.response_queue
  /\ after.total_messages = before.total_messages
  /\ after.processed_count = before.processed_count

\* C17: after clean_inactive_users every entry left in active_users has age
\* <= the timeout and every entry removed had age > the timeout, and the
\* message queue, the response queue and the counters are unchanged; for the
\* sweep of get_queue_stats (15 s) and for the sweep of load_queue (30 s).
C17_Sweep ==
  [][/\ last'.op = "stats" => Swept(qs, qs', StatsTimeout, now)
     /\ last'.op = "load" => Swept(file, qs', LoadTimeout, now)]_vars

\* The stats sweep removed one of two entries of a loaded manager that has
\* a pending request.
C17_Witness ==
  /\ last.op = "stats"
  /\ qs.message_queue # <<>>
  /\ Cardinality(DOMAIN file.active_users) = 2
  /\ Cardinality(DOMAIN qs.active_users) = 1

\* ---- C18 (SpecSearch) ---------------------------------------------------
\* Some keyword of procedure p is a substring of text.
Matches(p, text) ==
  \E low \in {text} : \E j \in 1..Len(procedures[p].keywords) :
    Contains(low, procedures[p].keywords[j])

\* C18: the response a dispatch appends carries the answer of the first
\* procedure, in list order, one of whose keywords is a substring of the
\* lowercased message of the request, and the default help exactly when no
\* procedure has such a keyword.
C18_FirstMatchWins ==
  [][(last'.op = "dispatch" /\ last'.ok) =>
       \E r \in {qs'.response_queue[Len(qs'.response_queue)]},
          text \in {dispatches'[Len(dispatches')].msg.message} :
         \E matching \in {{p \in 1..Len(procedures) : Matches(p, Lower(text))}} :
           /\ r.original_message = text
           /\ matching # {} =>
                \E p \in matching :
                  /\ \A k \in matching : p <= k
                  /\ r.response = procedures[p].response
           /\ matching = {} <=> r.response = DefaultHelp]_vars

\* Two requests were dispatched: one with keywords of Grades and of
\* Enrollment got the Enrollment answer, one with no keyword got the
\* default help.
C18_Witness ==
  /\ Len(dispatches) = 2
  /\ \E r1, r2 \in Range(qs.response_queue) :
       /\ r1.original_message = T_two
       /\ r1.response = "How to Enroll in Subjects via AIMS"
       /\ r2.original_message = T_unmatched
       /\ r2.response = DefaultHelp

\* ---- C19 (SpecCrash) ----------------------------------------------------
\* C19: no copy of the manager holds more than one request in
\* processing_queue, and when the process of a client stops while a request
\* is in the processing_queue of its copy, the manager loaded from the
\* snapshot afterwards has that request in its processing_queue.
C19_CrashObservable ==
  /\ [](\A q \in Copies : Len(q.processing_queue) <= 1)
  /\ [][\A c \in Clients :
          (pc[c] = "dispatching" /\ pc'[c] = "start") =>
            \A m \in Range(qm[c].processing_queue) :
              m \in Range(load_queue(file', now').processing_queue)]_vars

\* ---- C21 (Spec) ---------------------------------------------------------
\* C21: under serialized calls, the responses one client got from its
\* successive get_response calls are in increasing id order, which is the
\* order in which their requests were submitted, whatever calls of other
\* clients come in between.
C21_PerClientFifo ==
  \A i, j \in 1..Len(delivered) :
    (i < j /\ delivered[i].to = delivered[j].to) =>
      /\ delivered[i].response.id < delivered[j].response.id
      /\ \E a, b \in 1..Len(issued) :
           /\ a < b
           /\ issued[a].id = delivered[i].response.id
           /\ issued[b].id = delivered[j].response.id
           /\ issued[a].user_id = delivered[i].to
           /\ issued[b].user_id = delivered[j].to

\* One client submitted two requests and got both responses.
C21_Witness ==
  /\ Len(delivered) = 2
  /\ delivered[1].to = delivered[2].to
  /\ delivered[1].response.original_message # delivered[2].response.original_message

\* ---- C22 (SpecTurns) ----------------------------------------------------
\* The k-th request submitted was dispatched.
Dispatched(k) ==
  /\ Len(issued) >= k
  /\ \E i \in 1..Len(dispatches) : dispatches[i].msg = issued[k]

\* The response of the k-th request submitted was returned to its client.
Retrieved_by_client(k) ==
  /\ Len(issued) >= k
  /\ \E j \in 1..Len(delivered) :
       /\ delivered[j].response.id = issued[k].id
       /\ delivered[j].response.original_message = issued[k].message
       /\ delivered[j].to = issued[k].user_id

\* C22: when the clients' runs are made one at a time, every request
\* submitted is eventually dispatched and its response is eventually
\* returned to the client that submitted it, and no client's page stops
\* refreshing while a response for that client is in the response queue.
C22_EventualResponse ==
  /\ [](\A c \in Clients :
          pc[c] = "idle" =>
            \A i \in 1..Len(file.response_queue) : file.response_queue[i].user_id # c)
  /\ \A k \in 1..MaxSubmits :
       (Len(issued) >= k) ~> (Dispatched(k) /\ Retrieved_by_client(k))

\* Both clients submitted a request, each got its response, and both pages
\* stopped refreshing.
C22_Witness ==
  /\ Len(issued) = 2
  /\ issued[1].user_id # issued[2].user_id
  /\ Retrieved_by_client(1)
  /\ Retrieved_by_client(2)
  /\ \A c \in Clients : pc[c] = "idle"

====
